---- MODULE Spec2Model ----
(***************************************************************************)
(* State-machine model of main.py of chemScheduleTBot: the settings        *)
(* loader, the subscriber store (DataManager), the page scanner (Parser)   *)
(* and the messaging gateway (Bot), run by three threads: the main thread  *)
(* (construction and load_modules), the listening thread (command          *)
(* handlers) and the scanning thread (scan cycles).                        *)
(*                                                                         *)
(* Threads interleave between the steps below; one step is a piece of      *)
(* code that touches the shared store or the data file at most once.       *)
(* The listening thread handles one command at a time.                     *)
(***************************************************************************)
EXTENDS Integers, Sequences, FiniteSets, TLC

\* ------------------------------------------------------------------ bounds
NumUsers == 2
MaxMinute == 1
\* Longest sequence of calls made on the singleton class by a client.
MaxCalls == 3

Users == 1..NumUsers

\* ------------------------------------------------------------- datetimes
\* A datetime is [y, d, m]: the year, the day within the year (month and day
\* taken together) and the minute within the day (hour and minute together).
PageYear == 2021
Stamps == {[y |-> PageYear, d |-> 1, m |-> m] : m \in 0..MaxMinute}
Sentinel == [y |-> 1, d |-> 1, m |-> 0]
NoneDT == [y |-> 0, d |-> 0, m |-> 0]
NoStamp == NoneDT

\* The two timestamp formats a settings file of the model may configure:
\* "full" has the date and the time, "date" has the date alone.
Formats == {"full", "date"}

Digits(n) == IF n < 10 THEN 1 ELSE IF n < 100 THEN 2 ELSE IF n < 1000 THEN 3 ELSE 4

\* A formatted timestamp is [fmt, y, w, d, m]: the format that produced
\* it, the year and the number of digits it is written with, the day, and
\* the minute (0 when the format has no time).
Absent == [fmt |-> "absent", y |-> 0, w |-> 0, d |-> 0, m |-> 0]
Garbage == [fmt |-> "garbage", y |-> 0, w |-> 0, d |-> 0, m |-> 0]

\* datetime.strftime: %Y is written by the C library, which pads the year to
\* four digits on some platforms and not on others (pad).
strftime(dt, fmt, pad) ==
    [fmt |-> fmt, y |-> dt.y, w |-> IF pad THEN 4 ELSE Digits(dt.y),
     d |-> dt.d, m |-> IF fmt = "full" THEN dt.m ELSE 0]

\* datetime.strptime: the text must match the format, and %Y takes exactly
\* four digits; a date-only format leaves hour and minute at 0.
strptime(s, fmt) ==
    IF s.fmt = fmt /\ s.w = 4
    THEN [ok |-> TRUE, exc |-> "", value |-> [y |-> s.y, d |-> s.d, m |-> s.m]]
    ELSE [ok |-> FALSE, exc |-> "ValueError", value |-> NoneDT]

\* -------------------------------------------------------------- settings
AllKeys ==
    { <<"system", "data_st_fmt">>,
      <<"re", "date_regex">>, <<"re", "time_regex">>, <<"re", "target_file_regex">>,
      <<"scanning", "base_url">>, <<"scanning", "request">>, <<"scanning", "scan_delay">>,
      <<"telegram", "token">>,
      <<"messages", "command_start_scs">>, <<"messages", "command_start_err">>,
      <<"messages", "command_delete_scs">>, <<"messages", "command_delete_err">> }

Groups == {k[1] : k \in AllKeys}

\* The settings document: group -> (key -> value). The value of
\* system/data_st_fmt is the format; every other value is its own path.
FullTree(fmt) ==
    [g \in Groups |->
        [n \in {k[2] : k \in {q \in AllKeys : q[1] = g}} |->
            IF g = "system" THEN fmt ELSE n]]

DropKey(tree, key) ==
    [g \in DOMAIN tree |->
        IF g = key[1] THEN [n \in DOMAIN tree[g] \ {key[2]} |-> tree[g][n]]
        ELSE tree[g]]

DropGroup(tree, g0) == [g \in DOMAIN tree \ {g0} |-> tree[g]]

EmptyTree == [g \in {} |-> 0]

RECURSIVE Walk(_, _)
Walk(value, path) ==
    IF path = <<>> THEN [ok |-> TRUE, exc |-> "", value |-> value]
    ELSE IF Head(path) \in DOMAIN value THEN Walk(value[Head(path)], Tail(path))
    ELSE [ok |-> FALSE, exc |-> "KeyError", value |-> ""]

\* A lookup that answers a missing segment with an empty value, as a chain
\* of dict.get calls would.
SettingsGetDefault(js, path) ==
    IF js.isNone THEN [ok |-> FALSE, exc |-> "TypeError", value |-> ""]
    ELSE LET r == Walk(js.tree, path)
         IN IF r.ok THEN r ELSE [ok |-> TRUE, exc |-> "", value |-> ""]

\* Settings.get on the document held in _json (None before Settings.load).
SettingsGet(js, path) ==
    IF js.isNone THEN [ok |-> FALSE, exc |-> "TypeError", value |-> ""]
    ELSE Walk(js.tree, path)

\* ----------------------------------------------------------------- state
VARIABLES
    settingsFile,  \* data/settings.json on disk: the settings document
    padYear,       \* the platform's strftime pads %Y to four digits
    json,          \* Settings._json: [isNone, tree]
    users,         \* DataManager._users
    last_update,   \* DataManager._last_update (NoneDT before load)
    file,          \* data/data.json on disk: [kind, users, last_update]
    pc,            \* position of each thread
    raised,        \* the exception that left each thread's code uncaught
    printed,       \* the exception each thread last caught and printed
    sv,            \* per thread: the dict `data` built by save()
    cur,           \* the command being handled (or last handled)
    prev,          \* the command handled before cur, kept while cur is a
                   \* /start that repeats it
    cyc,           \* the scan cycle in progress (or last finished)
    prevStamp,     \* the timestamp extracted in the cycle before cyc
    snap,          \* mailing: the copy of the subscriber set it iterates
    todo,          \* mailing: recipients not yet reached
    mailed,        \* mailing: number of messages sent to each user in cyc
    bcast,         \* the broadcasts of cyc: [n, texts], the number of calls
                   \* of Bot.mailing and the texts they sent
    applied,       \* the subscriber set after the membership mutations
                   \* that have completed (add_user / del_user returned True)
    instance,      \* Core._instance: None or the identity of an object
    objects,       \* number of Core objects allocated so far
    calls,         \* the calls made on the singleton, with their results
    loads          \* the modules whose load() has been called, in order

vars == <<settingsFile, padYear, json, users, last_update, file, pc, raised,
          printed, sv, cur, prev, cyc, prevStamp, snap, todo, mailed, bcast,
          applied, instance, objects, calls, loads>>

Threads == {"main", "cmd", "scan"}
Workers == {"cmd", "scan"}

\* ------------------------------------------------------------ data file
EmptyFile == [kind |-> "empty", users |-> {}, last_update |-> Absent]
CorruptFile == [kind |-> "corrupt", users |-> {}, last_update |-> Absent]
JsonFile(us, lu) == [kind |-> "json", users |-> us, last_update |-> lu]

\* Length of the text json.dump writes: one line per user (ids of one
\* width) and the timestamp, whose year has w digits.
ContentLen(c) == 10 * Cardinality(c.users) + c.last_update.w

\* A writer's text lands at offset 0 of whatever the file holds when the
\* writer closes: its own open truncated the file, so anything there was
\* written by the other thread since; a shorter text leaves the tail of the
\* longer one behind it, which is not a JSON document.
WriteOver(f, c) ==
    IF f.kind = "empty" THEN c
    ELSE IF f.kind = "json" /\ ContentLen(c) >= ContentLen(f) THEN c
    ELSE CorruptFile

\* ----------------------------------------------------------------- pages
NoLink == "None"
Hrefs == {"/schedule.xls"}
\* A fetched page: whether the articleBody container and its paragraphs are
\* there, the timestamp its first paragraph yields (NoStamp: the regexes do
\* not match) and the href of the schedule anchor (NoLink: no such anchor).
Pages ==
    {[body |-> FALSE, stamp |-> NoStamp, href |-> NoLink]}
    \cup {[body |-> TRUE, stamp |-> s, href |-> h] :
            s \in Stamps \cup {NoStamp}, h \in Hrefs \cup {NoLink}}

NoCmd == [cmd |-> "none", user |-> 0, before |-> {}, res |-> "None",
          saves |-> 0, replies |-> <<>>]
NoPrev == [cmd |-> "none", user |-> 0, before |-> {}, res |-> "None"]
NoCycle == [old |-> NoneDT, stamp |-> NoStamp, href |-> NoLink, wrote |-> FALSE,
            saves |-> 0, link |-> NoLink, mailing |-> FALSE]
NoData == [users |-> {}, last_update |-> Absent]
NoBcast == [n |-> 0, texts |-> {}]
\* _instance = None; an object is named by the order of its allocation.
None == 0

\* ------------------------------------------------------------------ Init
\* The inputs of a run: the settings file, the data file a previous run (or
\* a person) left behind, and the platform.
Stamp0 == CHOOSE s \in Stamps : s.m = 0
ValidFile(fmt) == JsonFile({1}, strftime(Stamp0, fmt, TRUE))

\* Complete settings: each format over the file a run under that format
\* left; a file whose timestamp is unreadable (on a platform that does not
\* pad the year) or missing (on one that does); a file that is no JSON
\* document.
Complete ==
    {[settings |-> FullTree(f), pad |-> TRUE, data |-> ValidFile(f)] : f \in Formats}
    \cup {[settings |-> FullTree("full"), pad |-> FALSE, data |-> JsonFile({}, Garbage)]}
    \cup {[settings |-> FullTree("full"), pad |-> TRUE, data |-> d] :
            d \in {JsonFile({1}, Absent), CorruptFile}}

\* Settings with one path missing: a key of each place that looks one up,
\* or a whole group.
MissingKeys ==
    { <<"system", "data_st_fmt">>, <<"re", "date_regex">>,
      <<"re", "target_file_regex">>, <<"scanning", "base_url">>,
      <<"scanning", "request">>, <<"scanning", "scan_delay">>,
      <<"telegram", "token">>, <<"messages", "command_start_err">>,
      <<"messages", "command_delete_scs">> }

Incomplete ==
    {[settings |-> t, pad |-> TRUE, data |-> ValidFile("full")] :
        t \in {DropKey(FullTree("full"), k) : k \in MissingKeys}
               \cup {DropGroup(FullTree("full"), "messages")}}

Scenarios == Complete \cup Incomplete

Init ==
    /\ \E sc \in Scenarios :
          /\ settingsFile = sc.settings
          /\ padYear = sc.pad
          /\ file = sc.data
    /\ json = [isNone |-> TRUE, tree |-> EmptyTree]
    /\ users = {}
    /\ last_update = NoneDT
    /\ pc = [t \in Threads |-> IF t = "main" THEN "create" ELSE "off"]
    /\ raised = [t \in Threads |-> ""]
    /\ printed = [t \in Threads |-> ""]
    /\ sv = [t \in Workers |-> NoData]
    /\ cur = NoCmd
    /\ prev = NoPrev
    /\ cyc = NoCycle
    /\ prevStamp = NoStamp
    /\ snap = {}
    /\ todo = {}
    /\ mailed = [u \in Users |-> 0]
    /\ bcast = NoBcast
    /\ applied = {}
    /\ instance = None
    /\ objects = 0
    /\ calls = <<>>
    /\ loads = <<>>

Goto(t, l) == pc' = [pc EXCEPT ![t] = l]
\* An exception no handler of the program catches: the thread's code ends.
Uncaught(t, e) == /\ pc' = [pc EXCEPT ![t] = "uncaught"]
                  /\ raised' = [raised EXCEPT ![t] = e]

storeVars == <<users, last_update, file>>
cmdVars == <<cur, prev, applied>>
scanVars == <<cyc, prevStamp, snap, todo, mailed, bcast>>
envVars == <<settingsFile, padYear>>
coreVars == <<instance, objects, calls>>
mainVars == <<coreVars, loads>>

\* ------------------------------------------------------------- singleton
\* __new__ without its test: every call allocates.
Singleton_new_always(inst, objs) == [instance |-> objs + 1, objects |-> objs + 1]

\* _Singleton.__new__: allocate (super().__new__) and remember the object
\* only while _instance is None; return _instance.
Singleton_new(inst, objs) ==
    IF inst = None THEN [instance |-> objs + 1, objects |-> objs + 1]
    ELSE [instance |-> inst, objects |-> objs]

Call(op, ok, obj) == calls' = Append(calls, [op |-> op, ok |-> ok, obj |-> obj])

\* Core.__init__: runs on the object __new__ returned and gives it four
\* fresh, unloaded modules.
Core_init ==
    /\ json' = [isNone |-> TRUE, tree |-> EmptyTree]
    /\ users' = {}
    /\ last_update' = NoneDT

\* cls(): __new__, then __init__ on its result.
Construct(op) ==
    LET n == Singleton_new(instance, objects)
    IN /\ instance' = n.instance
       /\ objects' = n.objects
       /\ Call(op, TRUE, n.instance)
       /\ Core_init

\* _Singleton.create_instance(allow_recreation): RuntimeError when an
\* instance exists and recreation is not allowed; else cls._instance = cls().
Singleton_create_instance(op, allow) ==
    IF ~allow /\ instance # None
    THEN /\ Call(op, FALSE, None)
         /\ UNCHANGED <<instance, objects, json, users, last_update>>
    ELSE Construct(op)

\* A client calls Core.get_instance().
get_instance ==
    /\ Len(calls) < MaxCalls
    /\ Call("get_instance", TRUE, instance)
    /\ UNCHANGED <<envVars, instance, objects, loads, json, storeVars, pc, raised,
                   printed, sv, cmdVars, scanVars>>

\* A client calls Core.create_instance(allow_recreation).
call_create_instance(allow) ==
    /\ Len(calls) < MaxCalls
    /\ Singleton_create_instance(IF allow THEN "create_instance(True)"
                                 ELSE "create_instance", allow)
    /\ UNCHANGED <<envVars, loads, file, pc, raised, printed, sv, cmdVars, scanVars>>

\* A client calls the constructor, Core().
call_Core ==
    /\ Len(calls) < MaxCalls
    /\ Construct("Core")
    /\ UNCHANGED <<envVars, loads, file, pc, raised, printed, sv, cmdVars, scanVars>>

\* ----------------------------------------------------------- main thread
\* main: Core.create_instance()
create_instance ==
    /\ pc["main"] = "create"
    /\ Singleton_create_instance("create_instance", FALSE)
    /\ IF instance # None THEN Uncaught("main", "RuntimeError")
       ELSE Goto("main", "load_settings") /\ UNCHANGED raised
    /\ UNCHANGED <<envVars, loads, file, printed, sv, cmdVars, scanVars>>

\* Core.load_modules: self._settings.load()
Settings_load ==
    /\ pc["main"] = "load_settings"
    /\ json' = [isNone |-> FALSE, tree |-> settingsFile]
    /\ loads' = Append(loads, "settings")
    /\ Goto("main", "load_database")
    /\ UNCHANGED <<envVars, coreVars, storeVars, raised, printed, sv, cmdVars, scanVars>>

\* What the try block of DataManager.load evaluates: data['last_update'],
\* then the settings lookup, then strptime.
LoadStamp(f, js) ==
    IF f.last_update = Absent
    THEN [ok |-> FALSE, exc |-> "KeyError(data)", value |-> NoneDT]
    ELSE LET fmt == SettingsGet(js, <<"system", "data_st_fmt">>)
         IN IF ~fmt.ok THEN [ok |-> FALSE, exc |-> fmt.exc, value |-> NoneDT]
            ELSE strptime(f.last_update, fmt.value)

\* load without the try block around strptime: the error leaves load.
DataManager_load_notry ==
    /\ pc["main"] = "load_database"
    /\ IF file.kind # "json"
       THEN /\ Uncaught("main", "JSONDecodeError")
            /\ UNCHANGED <<users, last_update, applied>>
       ELSE LET r == LoadStamp(file, json)
            IN /\ users' = file.users
               /\ applied' = file.users
               /\ IF r.ok
                  THEN /\ last_update' = r.value
                       /\ Goto("main", "load_parser")
                       /\ UNCHANGED raised
                  ELSE /\ Uncaught("main", r.exc)
                       /\ UNCHANGED last_update
    /\ loads' = Append(loads, "database")
    /\ UNCHANGED <<envVars, coreVars, json, file, printed, sv, cur, prev, scanVars>>

\* Core.load_modules: self._database.load()
DataManager_load ==
    /\ pc["main"] = "load_database"
    /\ IF file.kind # "json"
       THEN /\ Uncaught("main", "JSONDecodeError")
            /\ UNCHANGED <<users, last_update, printed, applied>>
       ELSE LET r == LoadStamp(file, json)
            IN /\ users' = file.users
               /\ applied' = file.users
               /\ last_update' = IF r.ok THEN r.value ELSE Sentinel
               /\ printed' = [printed EXCEPT !["main"] = IF r.ok THEN "" ELSE r.exc]
               /\ Goto("main", "load_parser")
               /\ UNCHANGED raised
    /\ loads' = Append(loads, "database")
    /\ UNCHANGED <<envVars, coreVars, json, file, sv, cur, prev, scanVars>>

\* Core.load_modules: self._parser.load()
Parser_load ==
    /\ pc["main"] = "load_parser"
    /\ loads' = Append(loads, "parser")
    /\ Goto("main", "load_bot")
    /\ UNCHANGED <<envVars, coreVars, json, storeVars, raised, printed, sv, cmdVars, scanVars>>

\* Core.load_modules: self._bot.load()
Bot_load ==
    /\ pc["main"] = "load_bot"
    /\ LET r == SettingsGet(json, <<"telegram", "token">>)
       IN IF r.ok THEN Goto("main", "start_listening") /\ UNCHANGED raised
          ELSE Uncaught("main", r.exc)
    /\ loads' = Append(loads, "bot")
    /\ UNCHANGED <<envVars, coreVars, json, storeVars, printed, sv, cmdVars, scanVars>>

\* main that starts the listening thread without waiting for Bot.load.
start_listening_early ==
    /\ pc["main"] \in {"load_bot", "start_listening"}
    /\ pc' = [pc EXCEPT !["main"] = "start_scanning", !["cmd"] = "idle"]
    /\ UNCHANGED <<envVars, mainVars, json, storeVars, raised, printed, sv, cmdVars, scanVars>>

\* main: threading.Thread(target=core.bot.listening_server).start()
start_listening ==
    /\ pc["main"] = "start_listening"
    /\ pc' = [pc EXCEPT !["main"] = "start_scanning", !["cmd"] = "idle"]
    /\ UNCHANGED <<envVars, mainVars, json, storeVars, raised, printed, sv, cmdVars, scanVars>>

\* main: threading.Thread(target=core.parser.scanning).start()
start_scanning ==
    /\ pc["main"] = "start_scanning"
    /\ pc' = [pc EXCEPT !["main"] = "done", !["scan"] = "update"]
    /\ UNCHANGED <<envVars, mainVars, json, storeVars, raised, printed, sv, cmdVars, scanVars>>

\* ------------------------------------------------- DataManager.save steps
\* save() runs in the thread that mutated the store: the listening thread
\* (add_user, del_user) or the scanning thread (the last_update setter).

\* open(DATA_FILE, 'w'): the file is truncated at once.
save_open(t) ==
    /\ pc[t] = "save_open"
    /\ file' = EmptyFile
    /\ Goto(t, "save_data")
    /\ UNCHANGED <<envVars, mainVars, json, users, last_update, raised, printed, sv,
                   cmdVars, scanVars>>

\* data = {'users': list(self._users), 'last_update': self._last_update.strftime(...)}
\* A failed settings lookup leaves the with block: the file stays as it is,
\* and the exception goes to the caller (caught by Parser.update in the
\* scanning thread, by nothing in the listening thread).
save_data(t) ==
    /\ pc[t] = "save_data"
    /\ LET fmt == SettingsGet(json, <<"system", "data_st_fmt">>)
       IN IF fmt.ok
          THEN /\ sv' = [sv EXCEPT ![t] =
                            [users |-> users,
                             last_update |-> strftime(last_update, fmt.value, padYear)]]
               /\ Goto(t, "save_dump")
               /\ UNCHANGED <<raised, printed>>
          ELSE /\ UNCHANGED sv
               /\ IF t = "scan"
                  THEN /\ printed' = [printed EXCEPT ![t] = fmt.exc]
                       /\ Goto(t, "sleep")
                       /\ UNCHANGED raised
                  ELSE /\ Uncaught(t, fmt.exc)
                       /\ UNCHANGED printed
    /\ UNCHANGED <<envVars, mainVars, json, storeVars, cmdVars, scanVars>>

\* The membership mutation of command c applied to the set us.
Mutate(us, c) == IF c.cmd = "start" THEN us \cup {c.user} ELSE us \ {c.user}

\* json.dump(data, fs, indent=4) and the close that flushes it; save() then
\* returns into add_user / del_user (which return True) or into Parser.parse.
save_dump(t) ==
    /\ pc[t] = "save_dump"
    /\ file' = WriteOver(file, JsonFile(sv[t].users, sv[t].last_update))
    /\ sv' = [sv EXCEPT ![t] = NoData]
    /\ IF t = "cmd"
       THEN /\ cur' = [cur EXCEPT !.res = "True", !.saves = @ + 1]
            /\ applied' = Mutate(applied, cur)
            /\ Goto(t, "reply")
            /\ UNCHANGED cyc
       ELSE /\ cyc' = [cyc EXCEPT !.saves = @ + 1]
            /\ Goto(t, "extract_schedule")
            /\ UNCHANGED <<cur, applied>>
    /\ UNCHANGED <<envVars, mainVars, json, users, last_update, raised, printed, prev,
                   prevStamp, snap, todo, mailed, bcast>>

\* ------------------------------------------------------ listening thread
\* The record of a command as its handler begins.
NewCmd(c, u) == [cmd |-> c, user |-> u, before |-> users, res |-> "None",
                 saves |-> 0, replies |-> <<>>]

\* add_user without its membership test: every call adds, saves and
\* returns True.
add_user_unchecked(c) ==
    /\ users' = users \cup {c.user}
    /\ cur' = c
    /\ Goto("cmd", "save_open")

\* DataManager.add_user: if user_id in self._users: return False;
\* self._users.add(user_id); then save().
add_user(c) ==
    IF c.user \in users
    THEN /\ cur' = [c EXCEPT !.res = "False"]
         /\ Goto("cmd", "reply")
         /\ UNCHANGED users
    ELSE /\ users' = users \cup {c.user}
         /\ cur' = c
         /\ Goto("cmd", "save_open")

\* del_user that saves and returns True whether or not the user was there.
del_user_discard(c) ==
    /\ users' = users \ {c.user}
    /\ cur' = c
    /\ Goto("cmd", "save_open")

\* del_user that empties the set (clear() for remove()).
del_user_clear(c) ==
    IF c.user \in users
    THEN /\ users' = {}
         /\ cur' = c
         /\ Goto("cmd", "save_open")
    ELSE /\ cur' = [c EXCEPT !.res = "False"]
         /\ Goto("cmd", "reply")
         /\ UNCHANGED users

\* DataManager.del_user: self._users.remove(user_id), KeyError -> return
\* False; then save().
del_user(c) ==
    IF c.user \in users
    THEN /\ users' = users \ {c.user}
         /\ cur' = c
         /\ Goto("cmd", "save_open")
    ELSE /\ cur' = [c EXCEPT !.res = "False"]
         /\ Goto("cmd", "reply")
         /\ UNCHANGED users

\* Bot.command_start: the polling loop hands a /start message from user u to
\* the handler, which calls add_user(message.from_user.id).
command_start(u) ==
    /\ pc["cmd"] = "idle"
    /\ prev' = IF cur.cmd = "start" /\ cur.user = u
                THEN [cmd |-> cur.cmd, user |-> cur.user, before |-> cur.before,
                      res |-> cur.res]
                ELSE NoPrev
    /\ add_user(NewCmd("start", u))
    /\ UNCHANGED <<envVars, mainVars, json, last_update, file, raised, printed, sv,
                   applied, scanVars>>

\* Bot.command_delete: a /delete message from user u; the handler calls
\* del_user(message.from_user.id).
command_delete(u) ==
    /\ pc["cmd"] = "idle"
    /\ prev' = NoPrev
    /\ del_user(NewCmd("delete", u))
    /\ UNCHANGED <<envVars, mainVars, json, last_update, file, raised, printed, sv,
                   applied, scanVars>>

\* The two message keys the wrong way round.
MsgKeySwapped(c, res) ==
    <<"messages",
      IF c = "start"
      THEN (IF res = "True" THEN "command_start_err" ELSE "command_start_scs")
      ELSE (IF res = "True" THEN "command_delete_err" ELSE "command_delete_scs")>>

\* msg = 'messages/command_<cmd>_scs' if res else 'messages/command_<cmd>_err'
MsgKey(c, res) ==
    <<"messages",
      IF c = "start"
      THEN (IF res = "True" THEN "command_start_scs" ELSE "command_start_err")
      ELSE (IF res = "True" THEN "command_delete_scs" ELSE "command_delete_err")>>

\* self._bot.send_message(message.from_user.id, core.settings.get(msg)): the
\* lookup may fail, and so may the send (sent = FALSE).
reply(sent) ==
    /\ pc["cmd"] = "reply"
    /\ LET text == SettingsGet(json, MsgKey(cur.cmd, cur.res))
       IN IF ~text.ok THEN Uncaught("cmd", text.exc) /\ UNCHANGED cur
          ELSE IF ~sent THEN Uncaught("cmd", "ApiException") /\ UNCHANGED cur
          ELSE /\ cur' = [cur EXCEPT !.replies =
                              Append(@, [to |-> cur.user, text |-> text.value])]
               /\ Goto("cmd", "idle")
               /\ UNCHANGED raised
    /\ UNCHANGED <<envVars, mainVars, json, storeVars, printed, sv, prev, applied,
                   scanVars>>

\* ------------------------------------------------------- scanning thread
\* update without its try block: the exception leaves update and scanning.
Escapes(e) ==
    /\ printed' = [printed EXCEPT !["scan"] = e]
    /\ Goto("scan", "uncaught")

\* The except clause of Parser.update: print(ex), and update returns.
Caught(e) ==
    /\ printed' = [printed EXCEPT !["scan"] = e]
    /\ Goto("scan", "sleep")

\* Parser.extract_last_update on the first paragraph of the page: the two
\* regex lookups, then the searches (no match: None has no .group()).
extract_last_update(page, js) ==
    LET dr == SettingsGet(js, <<"re", "date_regex">>)
        tr == SettingsGet(js, <<"re", "time_regex">>)
    IN IF ~dr.ok THEN [ok |-> FALSE, exc |-> dr.exc, value |-> NoStamp]
       ELSE IF ~tr.ok THEN [ok |-> FALSE, exc |-> tr.exc, value |-> NoStamp]
       ELSE IF page.stamp = NoStamp
            THEN [ok |-> FALSE, exc |-> "AttributeError", value |-> NoStamp]
       ELSE [ok |-> TRUE, exc |-> "", value |-> page.stamp]

\* The comparison the wrong way round.
NoChangeInverted(extracted, stored) == extracted # stored

\* A comparison that never finds the two timestamps equal.
NoChangeNever(extracted, stored) == FALSE

\* Parser.parse: if last_update == core.database.last_update: return None
NoChange(extracted, stored) == extracted = stored

\* What requests.get may do: raise (no page), or return one of the pages.
NoPage == [body |-> FALSE, stamp |-> NoStamp, href |-> NoLink]
Fetches == {[ok |-> FALSE, page |-> NoPage]} \cup {[ok |-> TRUE, page |-> p] : p \in Pages}

\* Parser.update up to the comparison in Parser.parse: the request lookup,
\* requests.get, the container and its paragraphs, the extracted timestamp,
\* and, when it differs from the stored one, the write of the stored one
\* (the last_update setter, whose save() follows in save_open).
update(f) ==
    /\ pc["scan"] = "update"
    /\ LET req == SettingsGet(json, <<"scanning", "request">>)
           ext == extract_last_update(f.page, json)
           new == [NoCycle EXCEPT !.old = last_update]
       IN IF ~req.ok
          THEN Caught(req.exc) /\ cyc' = new /\ UNCHANGED last_update
          ELSE IF ~f.ok
          THEN Caught("RequestException") /\ cyc' = new /\ UNCHANGED last_update
          ELSE IF ~f.page.body
          THEN Caught("AttributeError") /\ cyc' = new /\ UNCHANGED last_update
          ELSE IF ~ext.ok
          THEN Caught(ext.exc) /\ cyc' = new /\ UNCHANGED last_update
          ELSE IF NoChange(ext.value, last_update)
          THEN /\ cyc' = [new EXCEPT !.stamp = ext.value, !.href = f.page.href]
               /\ printed' = [printed EXCEPT !["scan"] = ""]
               /\ Goto("scan", "sleep")
               /\ UNCHANGED last_update
          ELSE /\ cyc' = [new EXCEPT !.stamp = ext.value, !.href = f.page.href,
                                      !.wrote = TRUE]
               /\ last_update' = ext.value
               /\ printed' = [printed EXCEPT !["scan"] = ""]
               /\ Goto("scan", "save_open")
    /\ UNCHANGED <<envVars, mainVars, json, users, file, raised, sv, cmdVars, prevStamp,
                   snap, todo, mailed, bcast>>

\* Parser.extract_schedule on the schedule paragraph: the regex lookup, the
\* anchor (none: None has no .get()), the base_url lookup.
extract_schedule ==
    /\ pc["scan"] = "extract_schedule"
    /\ LET rx == SettingsGet(json, <<"re", "target_file_regex">>)
           base == SettingsGet(json, <<"scanning", "base_url">>)
       IN IF ~rx.ok THEN Caught(rx.exc) /\ UNCHANGED cyc
          ELSE IF cyc.href = NoLink THEN Caught("AttributeError") /\ UNCHANGED cyc
          ELSE IF ~base.ok THEN Caught(base.exc) /\ UNCHANGED cyc
          ELSE /\ cyc' = [cyc EXCEPT !.link = cyc.href]
               /\ Goto("scan", "mailing")
               /\ UNCHANGED printed
    /\ UNCHANGED <<envVars, mainVars, json, storeVars, raised, sv, cmdVars, prevStamp,
                   snap, todo, mailed, bcast>>

\* mailing that takes its recipients out of the live set as it goes
\* (while users: u = users.pop()).
mailing_drain ==
    /\ pc["scan"] = "mailing"
    /\ snap' = users
    /\ todo' = users
    /\ users' = {}
    /\ cyc' = [cyc EXCEPT !.mailing = TRUE]
    /\ bcast' = [bcast EXCEPT !.n = @ + 1]
    /\ Goto("scan", IF users = {} THEN "sleep" ELSE "send")
    /\ UNCHANGED <<envVars, mainVars, json, last_update, file, raised, printed, sv,
                   cmdVars, prevStamp, mailed>>

\* Bot.mailing(link): the for loop starts on DataManager.users, a copy of
\* the subscriber set.
mailing ==
    /\ pc["scan"] = "mailing"
    /\ snap' = users
    /\ todo' = users
    /\ cyc' = [cyc EXCEPT !.mailing = TRUE]
    /\ bcast' = [bcast EXCEPT !.n = @ + 1]
    /\ Goto("scan", IF users = {} THEN "sleep" ELSE "send")
    /\ UNCHANGED <<envVars, mainVars, json, storeVars, raised, printed, sv, cmdVars,
                   prevStamp, mailed>>

\* The users the broadcast of cyc has reached.
Reached == {u \in Users : mailed[u] > 0}

\* A loop over the store's own set: it sees the subscribers of the moment.
PendingLive(copy, live, done) == live \ done

\* What the for loop has still to visit: DataManager.users returned
\* set(self._users), so the loop walks that copy whatever happens to the
\* live set meanwhile.
Pending(copy, live, done) == copy \ done

\* The message of a broadcast: the fixed prefix ("schedule update:", in
\* Russian in the source), a newline and the link.
Text(link) == <<"schedule update:", link>>

\* A loop that isolates recipients: a failed send is printed and the loop
\* goes on with the next recipient.
send_isolated(u, sent) ==
    /\ pc["scan"] = "send"
    /\ u \in todo
    /\ todo' = todo \ {u}
    /\ Goto("scan", IF todo = {u} THEN "sleep" ELSE "send")
    /\ IF sent
       THEN /\ mailed' = [mailed EXCEPT ![u] = @ + 1]
            /\ bcast' = [bcast EXCEPT !.texts = @ \cup {Text(cyc.link)}]
            /\ UNCHANGED printed
       ELSE /\ printed' = [printed EXCEPT !["scan"] = "ApiException"]
            /\ UNCHANGED <<mailed, bcast>>
    /\ UNCHANGED <<envVars, mainVars, json, storeVars, raised, sv, cmdVars, cyc,
                   prevStamp, snap>>

\* One iteration of the loop: send_message(u, text); a failed send raises
\* out of the loop into Parser.update.
send(u, sent) ==
    /\ pc["scan"] = "send"
    /\ LET p == Pending(snap, users, Reached)
       IN /\ u \in p
          /\ IF sent
             THEN /\ mailed' = [mailed EXCEPT ![u] = @ + 1]
                  /\ bcast' = [bcast EXCEPT !.texts = @ \cup {Text(cyc.link)}]
                  /\ todo' = p \ {u}
                  /\ Goto("scan", IF p = {u} THEN "sleep" ELSE "send")
                  /\ UNCHANGED printed
             ELSE /\ Caught("ApiException")
                  /\ UNCHANGED <<mailed, todo, bcast>>
    /\ UNCHANGED <<envVars, mainVars, json, storeVars, raised, sv, cmdVars, cyc,
                   prevStamp, snap>>

\* Parser.scanning: time.sleep(core.settings.get('scanning/scan_delay')),
\* outside update's try block, then the next turn of the loop. The record
\* of the cycle that ended is put away here.
sleep ==
    /\ pc["scan"] = "sleep"
    /\ LET d == SettingsGet(json, <<"scanning", "scan_delay">>)
       IN IF d.ok
          THEN /\ Goto("scan", "update")
               /\ prevStamp' = cyc.stamp
               /\ cyc' = NoCycle
               /\ snap' = {}
               /\ todo' = {}
               /\ mailed' = [u \in Users |-> 0]
               /\ bcast' = NoBcast
               /\ UNCHANGED raised
          ELSE /\ Uncaught("scan", d.exc)
               /\ UNCHANGED scanVars
    /\ UNCHANGED <<envVars, mainVars, json, storeVars, printed, sv, cmdVars>>

\* ------------------------------------------------------- specifications
ScanNext ==
    \/ \E f \in Fetches : update(f)
    \/ save_open("scan") \/ save_data("scan") \/ save_dump("scan")
    \/ extract_schedule
    \/ mailing
    \/ \E u \in Users, sent \in BOOLEAN : send(u, sent)
    \/ sleep

CmdNext ==
    \/ \E u \in Users : command_start(u)
    \/ \E u \in Users : command_delete(u)
    \/ save_open("cmd") \/ save_data("cmd") \/ save_dump("cmd")
    \/ \E sent \in BOOLEAN : reply(sent)

MainNext ==
    \/ create_instance
    \/ Settings_load
    \/ DataManager_load
    \/ Parser_load
    \/ Bot_load
    \/ start_listening
    \/ start_scanning

Next == MainNext \/ CmdNext \/ ScanNext

Spec == Init /\ [][Next]_vars

\* The singleton class on its own, under the calls a client may make on it.
SingletonNext ==
    \/ get_instance
    \/ \E allow \in BOOLEAN : call_create_instance(allow)
    \/ call_Core

SingletonSpec == Init /\ [][SingletonNext]_vars

\* The scanning thread is an operating-system thread: it is scheduled again
\* and again, requests.get returns or raises, and time.sleep returns.
FairSpec == Spec /\ WF_vars(ScanNext)

\* ================================================================ claims
\* The call of add_user / del_user made by the command at hand has returned.
Returned == cur.res # "None"
\* The step is one of the listening thread.
CmdStep == pc'["cmd"] # pc["cmd"]
ScanStep == pc'["scan"] # pc["scan"]

\* C1: add_user(u) called twice in a row for a user u that was not subscribed
\* returns True the first time and False the second time; after both calls
\* the subscriber set is the original set plus u, one larger, and the
\* second call saves nothing.
C1_AddTwice ==
    (cur.cmd = "start" /\ Returned) =>
        /\ (cur.user \notin cur.before =>
                cur.res = "True" /\ users = cur.before \cup {cur.user})
        /\ (prev.cmd = "start" /\ prev.user \notin prev.before =>
                /\ prev.res = "True"
                /\ cur.res = "False"
                /\ users = prev.before \cup {cur.user}
                /\ Cardinality(users) = Cardinality(prev.before) + 1
                /\ cur.saves = 0)

C1_Witness ==
    /\ pc["cmd"] = "idle"
    /\ cur.cmd = "start" /\ cur.res = "False"
    /\ prev.cmd = "start" /\ prev.user \notin prev.before /\ prev.res = "True"

\* The step in which command_delete calls del_user.
DelCall == pc["cmd"] = "idle" /\ CmdStep /\ cur'.cmd = "delete"

\* C2: del_user(u) for a user that is not subscribed returns False and leaves
\* the subscriber set, the stored timestamp and the data file as they were;
\* for a subscribed user it removes exactly u, saves the set without u and
\* returns True.
C2_DelUser ==
    [][ /\ (DelCall /\ cur'.user \notin users =>
                /\ cur'.res = "False"
                /\ cur'.saves = 0
                /\ pc'["cmd"] = "reply"
                /\ UNCHANGED <<users, last_update, file>>)
        /\ (DelCall /\ cur'.user \in users =>
                /\ users' = users \ {cur'.user}
                /\ pc'["cmd"] = "save_open"
                /\ cur'.res = "None")
        /\ (cur.cmd = "delete" /\ pc["cmd"] = "save_dump" /\ CmdStep =>
                /\ sv["cmd"].users = cur.before \ {cur.user}
                /\ file'.kind = "json" => file'.users = cur.before \ {cur.user}
                /\ cur'.res = "True"
                /\ cur'.saves = 1)
        /\ (cur'.cmd = "delete" /\ cur'.res = "True" =>
                cur'.user \in cur'.before /\ users' = cur'.before \ {cur'.user})
        /\ (cur'.cmd = "delete" /\ cur'.res = "False" =>
                cur'.user \notin cur'.before /\ users' = cur'.before)
      ]_vars

C2_Witness ==
    /\ pc["cmd"] = "idle"
    /\ cur.cmd = "delete" /\ cur.res = "False"
    /\ cur.user \notin users /\ users # {}
    /\ file.kind = "json"

\* The settings file has the path.
Has(key) == key[1] \in DOMAIN settingsFile /\ key[2] \in DOMAIN settingsFile[key[1]]
FmtKey == <<"system", "data_st_fmt">>
Fmt == settingsFile["system"]["data_st_fmt"]
\* DataManager.load has run to its end.
Loaded == pc["main"] \in {"load_parser", "load_bot", "start_listening",
                          "start_scanning", "done"}
\* Thread t is not inside add_user, del_user, the setter or save.
StoreIdle(t) == pc[t] \notin {"save_open", "save_data", "save_dump"}
\* What save() writes for the store as it is now.
Persisted == JsonFile(users, strftime(last_update, Fmt, padYear))

\* C3: the store is persisted on every mutation: whenever no store operation
\* is in progress, the data file holds the subscriber set and the timestamp
\* that are in memory. (Stated for runs whose load read the timestamp from
\* the file and in which no thread has died.)
C3_PersistedOnEveryMutation ==
    ( /\ Loaded
      /\ printed["main"] = ""
      /\ \A t \in Threads : raised[t] = ""
      /\ StoreIdle("cmd") /\ StoreIdle("scan") )
    => file = Persisted

\* To the precision of the format: a date-only format keeps no minutes.
Trunc(dt, fmt) == IF fmt = "full" THEN dt ELSE [dt EXCEPT !.m = 0]

\* C4: persist-then-reload round trip: once a subscribe or unsubscribe has
\* saved the store, loading what save() writes for the store yields the same
\* subscriber set and the same timestamp (to the precision of the format),
\* and the load does not take the sentinel fallback.
C4_RoundTrip ==
    (Loaded /\ Has(FmtKey) /\ cur.res = "True" /\ StoreIdle("cmd")) =>
        LET r == LoadStamp(Persisted, json)
        IN /\ Persisted.users = users
           /\ r.ok
           /\ r.value = Trunc(last_update, Fmt)

\* C5: when the timestamp extracted in a cycle equals the stored one (as it
\* does when the cycle before extracted the same timestamp), the cycle ends
\* with parse returning None: the stored timestamp is not written, nothing
\* is saved and no broadcast is sent.
C5_NoChange ==
    (cyc.stamp # NoStamp /\ (cyc.stamp = cyc.old \/ cyc.stamp = prevStamp)) =>
        /\ pc["scan"] \in {"sleep", "uncaught"}
        /\ printed["scan"] = ""
        /\ ~cyc.wrote /\ last_update = cyc.old
        /\ cyc.saves = 0 /\ sv["scan"] = NoData
        /\ cyc.link = NoLink /\ ~cyc.mailing
        /\ \A u \in Users : mailed[u] = 0

C5_Witness ==
    /\ pc["scan"] = "sleep"
    /\ cyc.stamp # NoStamp /\ cyc.stamp = prevStamp
    /\ cyc.stamp # Stamp0

\* C6: one broadcast per detected update: a cycle that wrote a newly
\* extracted timestamp to the store also issues a broadcast carrying the
\* link of that page. (Stated for complete settings.)
C6_BroadcastPerUpdate ==
    (pc["scan"] = "sleep" /\ cyc.wrote /\ \A k \in AllKeys : Has(k)) =>
        cyc.mailing /\ cyc.link # NoLink /\ cyc.link = cyc.href

\* The text of a persisted last_update does not parse under the format.
Malformed(s) == s = Garbage \/ (Has(FmtKey) /\ (s.fmt # Fmt \/ s.w # 4))

\* C8: loading a data file whose last_update is malformed or absent does not
\* raise: load ends with the stored timestamp at the sentinel and the
\* subscriber set taken from the file's user list.
C8_MalformedLoad ==
    /\ (pc["main"] = "load_parser" /\
            (file.last_update = Absent \/ Malformed(file.last_update)) =>
                /\ last_update = Sentinel
                /\ users = file.users
                /\ raised["main"] = "")
    /\ (pc["main"] = "uncaught" =>
            file.kind # "json" \/ ~Has(<<"telegram", "token">>))

C8_Witness ==
    /\ pc["main"] = "load_parser"
    /\ file.last_update = Garbage
    /\ last_update = Sentinel /\ users = file.users
    /\ printed["main"] = "ValueError"

\* C9: a command whose handler has returned got exactly one reply, sent to
\* its sender: the success text if and only if the sender was not subscribed
\* (/start) or was subscribed (/delete) before the command; otherwise the
\* failure text, with the subscriber set as before and nothing saved.
C9_OneReply ==
    /\ Len(cur.replies) <= 1
    /\ (pc["cmd"] # "idle" => cur.replies = <<>>)
    /\ (pc["cmd"] = "idle" /\ cur.cmd # "none" =>
            /\ Len(cur.replies) = 1
            /\ cur.replies[1].to = cur.user
            /\ LET text == cur.replies[1].text
                   scs == IF cur.cmd = "start" THEN "command_start_scs"
                          ELSE "command_delete_scs"
                   err == IF cur.cmd = "start" THEN "command_start_err"
                          ELSE "command_delete_err"
                   was == cur.user \in cur.before
               IN /\ text \in {scs, err}
                  /\ (cur.cmd = "start" => (text = scs <=> ~was))
                  /\ (cur.cmd = "delete" => (text = scs <=> was))
                  /\ (text = err => users = cur.before /\ cur.saves = 0))

C9_Witness ==
    /\ pc["cmd"] = "idle"
    /\ cur.cmd = "delete" /\ cur.user \in cur.before
    /\ Len(cur.replies) = 1 /\ cur.replies[1].text = "command_delete_scs"

InCycle == {"update", "save_open", "save_data", "save_dump", "extract_schedule",
            "mailing", "send"}

\* C7: the scan loop never stops: no failure of a cycle leaves
\* Parser.update, every cycle comes to its end, and after every cycle,
\* failed or not, the next one begins. (Stated for settings that have the
\* scan delay, which is read outside the cycle.)
C7_LoopNeverStops ==
    Has(<<"scanning", "scan_delay">>) =>
        /\ [](pc["scan"] # "uncaught")
        /\ [](pc["scan"] \in InCycle => <>(pc["scan"] = "sleep"))
        /\ [](pc["scan"] = "sleep" => <>(pc["scan"] = "update"))

C7_Witness ==
    /\ pc["scan"] = "update"
    /\ printed["scan"] # ""
    /\ Has(<<"scanning", "scan_delay">>)

MainStep == pc'["main"] # pc["main"]
Fatal(t) == pc'[t] = "uncaught" /\ raised'[t] = "KeyError"
CaughtInCycle == pc'["scan"] = "sleep" /\ printed'["scan"] = "KeyError"

C11_Snapshot ==
    [][ /\ (pc["scan"] = "mailing" /\ ScanStep => snap' = users)
        /\ (CmdStep => snap' = snap /\ mailed' = mailed /\ bcast' = bcast)
        /\ (cyc'.mailing =>
                /\ {u \in Users : mailed'[u] > 0} \subseteq snap'
                /\ \A u \in Users : mailed'[u] <= 1
                /\ bcast'.texts \subseteq {Text(cyc'.link)}
                /\ (pc'["scan"] = "sleep" /\ printed'["scan"] = "" =>
                        /\ \A u \in Users : mailed'[u] = IF u \in snap' THEN 1 ELSE 0
                        /\ (snap' # {} => bcast'.texts = {Text(cyc'.link)})))
      ]_vars

C11_Witness ==
    /\ pc["scan"] = "sleep" /\ cyc.mailing /\ printed["scan"] = ""
    /\ snap = Users /\ Reached = snap
    /\ users # snap

\* C12: no per-recipient failure isolation: when a send fails the broadcast
\* stops there; the failure is caught by the scan cycle, which ends; the
\* recipient of the failed send and those not yet reached have received
\* nothing; and the stored timestamp keeps the new value the cycle wrote.
C12_NoIsolation ==
    (cyc.mailing /\ printed["scan"] = "ApiException") =>
        /\ pc["scan"] \in {"sleep", "uncaught"}
        /\ raised["scan"] # "ApiException"
        /\ todo # {} /\ todo = snap \ Reached
        /\ \A u \in todo : mailed[u] = 0
        /\ cyc.wrote /\ last_update = cyc.stamp /\ last_update # cyc.old

C12_Witness ==
    /\ pc["scan"] = "sleep" /\ cyc.mailing /\ printed["scan"] = "ApiException"
    /\ Cardinality(todo) = 2 /\ Reached = {}
    /\ last_update = cyc.stamp /\ last_update # cyc.old

\* C13: each loop mutates only its own part of the store: a step of a
\* command of user u leaves the in-memory timestamp and the membership of
\* every other user as they were; a step of the scanning thread leaves the
\* subscriber set as it was; a subscribed user leaves the set only in the
\* del_user call of that user's own /delete.
C13_Frame ==
    [][ /\ (CmdStep /\ pc["cmd"] # "off" =>
                /\ last_update' = last_update
                /\ \A v \in Users \ {cur'.user} : (v \in users') <=> (v \in users))
        /\ (ScanStep /\ pc["scan"] # "off" => users' = users)
        /\ (Loaded =>
                \A u \in users \ users' :
                    /\ CmdStep /\ pc["cmd"] = "idle"
                    /\ cur'.cmd = "delete" /\ cur'.user = u)
      ]_vars

C13_Witness ==
    /\ pc["cmd"] = "idle" /\ cur.cmd = "delete" /\ cur.res = "True"
    /\ users # {} /\ cur.user \notin users
    /\ cyc.wrote /\ last_update = cyc.stamp

\* Order of two datetimes in time.
Before(a, b) ==
    \/ a.y < b.y
    \/ a.y = b.y /\ a.d < b.d
    \/ a.y = b.y /\ a.d = b.d /\ a.m < b.m

\* C14: the last-update timestamp is monotonic: once loaded, the stored
\* timestamp never moves to an earlier point in time than the one it
\* holds. (Stated for complete settings.)
C14_Monotonic ==
    [][ (Loaded /\ (\A k \in AllKeys : Has(k)) /\ last_update' # last_update)
            => Before(last_update, last_update') ]_vars

\* The order in which Core.load_modules calls the loads.
LoadOrder == <<"settings", "database", "parser", "bot">>
IsPrefix(a, b) == Len(a) <= Len(b) /\ \A i \in 1..Len(a) : a[i] = b[i]
\* One of the two loops has started, or has done something.
Operating ==
    \/ pc["cmd"] # "off" \/ pc["scan"] # "off"
    \/ cur # NoCmd \/ cyc # NoCycle \/ bcast # NoBcast

\* C15: every module's load runs once, in the order settings, store,
\* parser, gateway; the store's load finds the settings loaded; and neither
\* loop handles a command or runs a cycle before all four loads have
\* completed.
C15_LoadOnce ==
    /\ IsPrefix(loads, LoadOrder)
    /\ (pc["main"] = "load_database" => ~json.isNone /\ loads = <<"settings">>)
    /\ (Len(loads) >= 2 => ~json.isNone /\ printed["main"] # "TypeError")
    /\ (Operating =>
            /\ loads = LoadOrder
            /\ pc["main"] \in {"start_scanning", "done"}
            /\ raised["main"] = ""
            /\ ~json.isNone /\ last_update # NoneDT)

C15_Witness ==
    /\ loads = LoadOrder
    /\ pc["cmd"] = "idle" /\ cur.cmd = "start" /\ Len(cur.replies) = 1
    /\ pc["scan"] = "sleep" /\ cyc.stamp # NoStamp

\* C16: a broadcast is sent only in a scan cycle that changed the stored
\* timestamp, and at most once in a cycle: a cycle in which Bot.mailing was
\* called or a message was sent has written a timestamp different from the
\* one stored when it began; a cycle that ends with the timestamp it began
\* with has sent nothing; and no step of a command handler calls mailing
\* or sends a broadcast message.
C16_BroadcastOnlyOnChange ==
    [][ /\ bcast'.n <= 1
        /\ (bcast' # NoBcast \/ cyc'.mailing \/ (\E u \in Users : mailed'[u] > 0) =>
                /\ bcast'.n = 1
                /\ cyc'.wrote /\ last_update' # cyc'.old /\ last_update' = cyc'.stamp)
        /\ (pc'["scan"] = "sleep" /\ last_update' = cyc'.old =>
                bcast' = NoBcast /\ \A u \in Users : mailed'[u] = 0)
        /\ (CmdStep => UNCHANGED <<bcast, mailed, snap, todo, cyc>>)
      ]_vars

C16_Witness ==
    /\ pc["scan"] = "sleep" /\ bcast.n = 1 /\ bcast.texts # {}
    /\ last_update # cyc.old
    /\ cur.cmd # "none"

\* C17: the in-memory subscriber set is the result of applying, in the
\* order of their calls, the membership mutations that have completed,
\* together with the one in progress (between its change of the set and
\* its return): under every interleaving with the scanning thread no
\* completed subscribe or unsubscribe is lost and no user is in the set
\* without a subscribe.
C17_Linearizable ==
    /\ IF cur.cmd # "none" /\ cur.res = "None"
       THEN users = Mutate(applied, cur) /\ users # applied
       ELSE users = applied
    /\ (cur.res = "True" => (cur.cmd = "start" <=> cur.user \in users))
    /\ (cur.res = "False" => (cur.cmd = "start" <=> cur.user \in users))

C17_Witness ==
    /\ pc["scan"] = "send" /\ Reached # {}
    /\ pc["cmd"] = "save_data" /\ cur.cmd = "delete"
    /\ users # applied /\ users # snap

\* A creating call (create_instance or the constructor) came before call i.
Exists(i) == \E j \in 1..(i - 1) : calls[j].op # "get_instance"

\* C18: the core is a singleton: get_instance returns None before any
\* creation; create_instance without allow_recreation raises RuntimeError
\* while an instance exists, and the instance stays; after any sequence of
\* create_instance and constructor calls at most one Core object exists
\* and every get_instance returns it.
C18_Singleton ==
    /\ objects <= 1
    /\ instance = IF Exists(Len(calls) + 1) THEN 1 ELSE None
    /\ \A i \in 1..Len(calls) :
          LET c == calls[i]
          IN /\ (c.op = "get_instance" =>
                    c.ok /\ c.obj = IF Exists(i) THEN 1 ELSE None)
             /\ (c.op = "create_instance" =>
                    IF Exists(i) THEN ~c.ok ELSE c.ok /\ c.obj = 1)
             /\ (c.op \in {"create_instance(True)", "Core"} => c.ok /\ c.obj = 1)

C18_Witness ==
    /\ Len(calls) = 3
    /\ calls[1].op = "Core"
    /\ calls[2].op = "create_instance" /\ ~calls[2].ok
    /\ calls[3].op = "get_instance" /\ calls[3].obj = 1 /\ instance = 1

====
